---- MODULE Spec2Model ----
(***************************************************************************)
(* Request / team lifecycle of the disaster-relief coordination backend.   *)
(*                                                                         *)
(* The state is the two persisted tables (rescue requests, rescue teams)   *)
(* and, for every concurrent caller, the position of the service method it *)
(* is executing together with the values that method holds in memory.      *)
(* Every `await` on mutable data in a service method is one step, so the   *)
(* reads and writes of concurrent calls interleave as they do on the       *)
(* server.  The lookup of the acting user is folded into the step of the   *)
(* request lookup: no modelled operation changes the users table.          *)
(***************************************************************************)
EXTENDS Integers, FiniteSets, Sequences, TLC

\* ------------------------------------------------------------------ bounds
MaxRequests == 2
MaxTeams == 2
MaxCallers == 2
\* Rows the two tables hold together.
MaxRows == 3

ReqIds == 1..MaxRequests
TeamIds == 1..MaxTeams
Procs == 1..MaxCallers

NULL == 0
NoUser == "none"

\* ------------------------------------------------------------- vocabulary
\* The users table: id -> role.  "ghost" is an id that resolves to no user.
\* Callers act as the coordinator, as a citizen or under the unknown id.
Users == [coord |-> "coordinator", admin |-> "admin", citizen |-> "citizen"]
Actors == {"coord", "citizen", "ghost"}

\* The five statuses the lifecycle operations write.
LifecycleStatuses ==
  {"new", "pending_verification", "rejected", "on_mission", "completed"}

\* The status tried as the patch of a generic update: the declared value
\* the update handler names itself.
PatchStatuses == {"verified"}

TeamStatuses == {"available", "on_mission", "unavailable"}
TeamNames == {"Alpha", "Bravo"}

\* A field absent from a JSON body: a string field, a numeric field.
Undefined == "undefined"
Missing == -999

\* A text column is a sequence of pieces, so that appending is concatenation
\* and "begins with" is the prefix order.  A null text and an empty text are
\* both the empty sequence: every read of notes in the service goes through
\* `notes || ...`, which treats the two alike.
NoNotes == << >>

ApprovedByDefault == "Request approved by coordinator"
RejectedPrefix == "Rejected: "
CompletedSeparator == "\nCompleted: "

Prefix(n, m) == Len(n) <= Len(m) /\ SubSeq(m, 1, Len(n)) = n

VARIABLES reqs, teams, calls

vars == <<reqs, teams, calls>>

\* ------------------------------------------------------------ persistence
NoRequest ==
  [created |-> FALSE, deleted |-> FALSE, status |-> "none",
   assigned_team_id |-> NULL, assigned_by |-> NoUser,
   verified_by |-> NoUser, notes |-> NoNotes,
   location_type |-> "none", latitude |-> Missing, longitude |-> Missing,
   address |-> Undefined, num_people |-> Missing, user_id |-> NoUser]

NoTeam ==
  [created |-> FALSE, deleted |-> FALSE, status |-> "none", name |-> "none",
   province_city |-> "none", specialization |-> "none", created_at |-> 0]

\* The ids a caller can name are those of stored rows, soft-deleted or not.
KnownRequest(id) == reqs[id].created

KnownTeam(id) == teams[id].created

\* findByPk on a paranoid model: a soft-deleted row is not found.  First a
\* faulty lookup that does not leave the soft-deleted rows out.
getRescueRequestById_Unscoped(id) == reqs[id].created /\ reqs[id].deleted \in BOOLEAN

getRescueRequestById(id) == reqs[id].created /\ ~reqs[id].deleted

getTeamById(id) == teams[id].created /\ ~teams[id].deleted

\* ------------------------------------------------------------- the caller
\* A caller is idle or inside a service method, where it holds the method's
\* position and its local values.  The outcome of a call goes back to the
\* caller and is no part of the state: it is the value of the operation's
\* Outcome operator in the state the call read.
Idle ==
  [pc |-> "idle", r |-> NULL, t |-> NULL, actor |-> NoUser, name |-> "none",
   text |-> Undefined, seen |-> NoNotes,
   province_city |-> Undefined, specialization |-> Undefined]

\* `text` is the free-text argument of the call (notes, reason, completion
\* notes) and `seen` the notes of the request instance the call loaded.
InFlight(pc, r, t, actor) ==
  [pc |-> pc, r |-> r, t |-> t, actor |-> actor, name |-> "none",
   text |-> Undefined, seen |-> NoNotes,
   province_city |-> Undefined, specialization |-> Undefined]

Finish(p) == calls' = [calls EXCEPT ![p] = Idle]

Goto(p, pc, r, t, actor) ==
  calls' = [calls EXCEPT ![p] = InFlight(pc, r, t, actor)]

\* The same with the free-text argument and the notes the call has loaded.
GotoWith(p, pc, r, t, actor, text, seen) ==
  calls' = [calls EXCEPT ![p] =
              [InFlight(pc, r, t, actor) EXCEPT !.text = text, !.seen = seen]]

\* A faulty role gate that lets every known user through.
CoordinatorCheck_AnyUser(actor) ==
  IF actor \notin DOMAIN Users THEN "NotFound"
  ELSE IF Users[actor] \notin {"coordinator", "admin", "citizen"} THEN "Forbidden"
  ELSE "ok"

\* The role gate repeated in approve, reject, assignTeam and completeMission.
CoordinatorCheck(actor) ==
  IF actor \notin DOMAIN Users THEN "NotFound"
  ELSE IF Users[actor] \notin {"coordinator", "admin"} THEN "Forbidden"
  ELSE "ok"

Init ==
  /\ reqs = [r \in ReqIds |-> NoRequest]
  /\ teams = [t \in TeamIds |-> NoTeam]
  /\ calls = [p \in Procs |-> Idle]

\* ------------------------------------------------------- rescue requests
\* Input of createRescueRequest: the fields of the body the service reads.
FullRequest(l, la, lo, ad) ==
  [category |-> "rescue", province_city |-> "HCMC",
   phone_number |-> "0900000000", description |-> "trapped on roof",
   location_type |-> l, latitude |-> la, longitude |-> lo, address |-> ad,
   num_people |-> Missing, status |-> Undefined, verified_by |-> Undefined,
   assigned_team_id |-> Missing]

\* The submissions of the lifecycle: every accepted one stores the same
\* location.
RequestInputs ==
  {FullRequest("gps", la, 106, ad) :
     la \in {Missing, 0, 10}, ad \in {Undefined, "street"}}
  \cup {FullRequest(Undefined, 10, 106, Undefined)}
  \cup {[FullRequest("gps", 10, 106, Undefined) EXCEPT !.category = Undefined]}

\* The submissions of the intake: each required field absent or empty in
\* turn, and every location form with coordinates inside, on and outside
\* the declared ranges.
Latitudes == {Missing, -91, -90, 0, 10, 90}
Longitudes == {Missing, -180, 0, 106, 180, 181}

\* Submissions with a head count of every kind, with and without fields
\* of the lifecycle smuggled into the body.
PeopleInputs ==
  {[FullRequest("gps", 10, 106, Undefined)
      EXCEPT !.num_people = n, !.status = x[1], !.verified_by = x[2],
             !.assigned_team_id = x[3]] :
     n \in {Missing, -1, 0, 3},
     x \in {<<Undefined, Undefined, Missing>>, <<"completed", "coord", 1>>}}

\* The caller of a submission: anonymous or logged in.
Creators == {NoUser, "citizen"}

IntakeInputs ==
  PeopleInputs \cup
  {FullRequest(l, la, lo, ad) :
     l \in {"gps", "manual", "other", Undefined},
     la \in Latitudes, lo \in Longitudes, ad \in {Undefined, "", "street"}}
  \cup {[FullRequest("gps", 10, 106, Undefined) EXCEPT ![f] = v] :
          f \in {"category", "province_city", "phone_number", "description"},
          v \in {Undefined, ""}}

\* JavaScript truthiness of a string-or-undefined and of a number-or-undefined.
Truthy(v) == v # Undefined /\ v # ""

TruthyNum(n) == n # Missing /\ n # 0

\* A faulty validation that never asks for the address.
createRequestValid_NoAddress(d) ==
  /\ Truthy(d.category)
  /\ Truthy(d.province_city)
  /\ Truthy(d.phone_number)
  /\ Truthy(d.description)
  /\ Truthy(d.location_type)
  /\ d.location_type = "gps" => (TruthyNum(d.latitude) /\ TruthyNum(d.longitude))

createRequestValid(d) ==
  /\ Truthy(d.category)
  /\ Truthy(d.province_city)
  /\ Truthy(d.phone_number)
  /\ Truthy(d.description)
  /\ Truthy(d.location_type)
  /\ d.location_type = "gps" => (TruthyNum(d.latitude) /\ TruthyNum(d.longitude))
  /\ d.location_type = "manual" => Truthy(d.address)

\* A faulty row that keeps every location field of the body.
NewRequest_KeepsAll(d, userId) ==
  [created |-> TRUE, deleted |-> FALSE, status |-> "new",
   assigned_team_id |-> NULL, assigned_by |-> NoUser,
   verified_by |-> NoUser, notes |-> NoNotes,
   location_type |-> d.location_type,
   latitude |-> d.latitude, longitude |-> d.longitude, address |-> d.address,
   num_people |-> IF TruthyNum(d.num_people) THEN d.num_people ELSE 1,
   user_id |-> userId]

\* The row handed to storage: a null coordinate is Missing, a null address
\* Undefined.
NewRequest(d, userId) ==
  [created |-> TRUE, deleted |-> FALSE, status |-> "new",
   assigned_team_id |-> NULL, assigned_by |-> NoUser,
   verified_by |-> NoUser, notes |-> NoNotes,
   location_type |-> d.location_type,
   latitude |-> IF d.location_type = "gps" THEN d.latitude ELSE Missing,
   longitude |-> IF d.location_type = "gps" THEN d.longitude ELSE Missing,
   address |-> IF d.location_type = "manual" THEN d.address ELSE Undefined,
   num_people |-> IF TruthyNum(d.num_people) THEN d.num_people ELSE 1,
   user_id |-> userId]

\* The declarations of the persisted model that storage enforces on insert.
LocationTypeEnum == {"gps", "manual"}

InRangeOrNull(n, lo, hi) == n = Missing \/ (lo <= n /\ n <= hi)

modelAccepts(row) ==
  /\ InRangeOrNull(row.latitude, -90, 90)
  /\ InRangeOrNull(row.longitude, -180, 180)
  /\ row.num_people >= 1

FreeReqIds == {r \in ReqIds : ~reqs[r].created}

Rows ==
  Cardinality({r \in ReqIds : reqs[r].created})
    + Cardinality({t \in TeamIds : teams[t].created})

createRequestOutcome(d) ==
  IF ~createRequestValid(d) THEN "Validation"
  ELSE IF ~modelAccepts(NewRequest(d, NoUser)) THEN "Validation"
  ELSE IF d.location_type \notin LocationTypeEnum THEN "DbError"
  ELSE "ok"

createRescueRequest(p, d, userId) ==
  /\ calls[p].pc = "idle"
  /\ IF createRequestOutcome(d) # "ok"
     THEN UNCHANGED vars
     ELSE /\ FreeReqIds # {}
          /\ Rows < MaxRows
          /\ LET id == CHOOSE r \in FreeReqIds : \A o \in FreeReqIds : r <= o
             IN reqs' = [reqs EXCEPT ![id] = NewRequest(d, userId)]
          /\ UNCHANGED <<teams, calls>>

\* approve: lookup, status check and role gate, then the write.
ApproveOutcome(id, coordinatorId) ==
  IF ~getRescueRequestById(id) THEN "NotFound"
  ELSE IF reqs[id].status # "new" THEN "StateError"
  ELSE CoordinatorCheck(coordinatorId)

ApproveRead(p, id, coordinatorId, notes) ==
  /\ calls[p].pc = "idle"
  /\ KnownRequest(id)
  /\ UNCHANGED <<reqs, teams>>
  /\ IF ApproveOutcome(id, coordinatorId) # "ok" THEN UNCHANGED calls
     ELSE GotoWith(p, "approve_update", id, NULL, coordinatorId, notes, NoNotes)

\* A faulty approve that stores the legacy status.
ApproveRequestWrite_Verified(rq, coordinatorId, notes) ==
  [rq EXCEPT !.status = "verified",
             !.verified_by = coordinatorId,
             !.notes = IF Truthy(notes) THEN <<notes>> ELSE <<ApprovedByDefault>>]

ApproveRequestWrite(rq, coordinatorId, notes) ==
  [rq EXCEPT !.status = "pending_verification",
             !.verified_by = coordinatorId,
             !.notes = IF Truthy(notes) THEN <<notes>> ELSE <<ApprovedByDefault>>]

ApproveUpdate(p) ==
  /\ calls[p].pc = "approve_update"
  /\ reqs' = [reqs EXCEPT ![calls[p].r] =
                ApproveRequestWrite(@, calls[p].actor, calls[p].text)]
  /\ Finish(p)
  /\ UNCHANGED teams

\* reject: the reason is validated before any lookup.
ReasonInputs == {Undefined, "", " ", "dup"}

\* String.trim, of which the service uses the emptiness of the result only.
Whitespace == {" "}

trim(str) == IF str \in Whitespace THEN "" ELSE str

ReasonBlank(reason) == ~Truthy(reason) \/ trim(reason) = ""

RejectOutcome(id, coordinatorId, reason) ==
  IF ReasonBlank(reason) THEN "Validation"
  ELSE IF ~getRescueRequestById(id) THEN "NotFound"
  ELSE IF reqs[id].status # "new" THEN "StateError"
  ELSE CoordinatorCheck(coordinatorId)

RejectRead(p, id, coordinatorId, reason) ==
  /\ calls[p].pc = "idle"
  /\ KnownRequest(id)
  /\ UNCHANGED <<reqs, teams>>
  /\ IF RejectOutcome(id, coordinatorId, reason) # "ok"
     THEN UNCHANGED calls
     ELSE GotoWith(p, "reject_update", id, NULL, coordinatorId, reason, NoNotes)

RejectRequestWrite(rq, coordinatorId, reason) ==
  [rq EXCEPT !.status = "rejected",
             !.verified_by = coordinatorId,
             !.notes = <<RejectedPrefix, reason>>]

RejectUpdate(p) ==
  /\ calls[p].pc = "reject_update"
  /\ reqs' = [reqs EXCEPT ![calls[p].r] =
                RejectRequestWrite(@, calls[p].actor, calls[p].text)]
  /\ Finish(p)
  /\ UNCHANGED teams

\* assignTeam: request lookup and role gate, team lookup, then the paired
\* write inside one transaction.
AssignRequestOutcome(requestId, coordinatorId) ==
  IF ~getRescueRequestById(requestId) THEN "NotFound"
  ELSE IF reqs[requestId].status # "pending_verification" THEN "StateError"
  ELSE CoordinatorCheck(coordinatorId)

AssignRead(p, requestId, teamId, coordinatorId) ==
  /\ calls[p].pc = "idle"
  /\ KnownRequest(requestId) /\ KnownTeam(teamId)
  /\ UNCHANGED <<reqs, teams>>
  /\ IF AssignRequestOutcome(requestId, coordinatorId) # "ok"
     THEN UNCHANGED calls
     ELSE Goto(p, "assign_team", requestId, teamId, coordinatorId)

AssignTeamOutcome(teamId) ==
  IF ~getTeamById(teamId) THEN "NotFound"
  ELSE IF teams[teamId].status # "available" THEN "Conflict"
  ELSE "ok"

AssignGetTeam(p) ==
  /\ calls[p].pc = "assign_team"
  /\ UNCHANGED <<reqs, teams>>
  /\ IF AssignTeamOutcome(calls[p].t) # "ok" THEN Finish(p)
     ELSE Goto(p, "assign_tx", calls[p].r, calls[p].t, calls[p].actor)

AssignRequestWrite(rq, teamId, coordinatorId) ==
  [rq EXCEPT !.status = "on_mission", !.assigned_team_id = teamId,
             !.assigned_by = coordinatorId]

\* A faulty assignment whose unit of work leaves the team as it was.
AssignTeamWrite_Skipped(tm) == tm

AssignTeamWrite(tm) == [tm EXCEPT !.status = "on_mission"]

\* The status enumerations the models declare for the two tables.
RequestStatusEnum ==
  {"new", "pending_verification", "verified", "in_progress", "completed",
   "rejected"}

TeamStatusEnum == {"available", "on_mission", "unavailable"}

\* What storage can do with the write of a request row: a status of the
\* declared enumeration is stored; any other status is stored by a table
\* whose column was extended beyond the declared model and refused by a
\* table that follows it.
RequestWriteOutcomes(rq) ==
  IF rq.status \in RequestStatusEnum THEN {"none"} ELSE {"none", "request_update"}

\* transaction(fn): the writes of fn are staged in the unit of work and
\* become visible together at commit; when storage refuses one of them the
\* unit of work is rolled back and nothing becomes visible.
TxFailures == {"none", "request_update", "team_update"}

transaction(failure, newReqs, newTeams) ==
  IF failure # "none"
  THEN UNCHANGED <<reqs, teams>>
  ELSE reqs' = newReqs /\ teams' = newTeams

AssignTransaction(p, failure) ==
  /\ calls[p].pc = "assign_tx"
  /\ transaction(failure,
       [reqs EXCEPT ![calls[p].r] =
          AssignRequestWrite(@, calls[p].t, calls[p].actor)],
       [teams EXCEPT ![calls[p].t] = AssignTeamWrite(@)])
  /\ Finish(p)

\* completeMission: the team is the one the request named when it was read.
CompleteRequestOutcome(requestId, coordinatorId) ==
  IF ~getRescueRequestById(requestId) THEN "NotFound"
  ELSE IF reqs[requestId].status # "on_mission" THEN "StateError"
  ELSE IF CoordinatorCheck(coordinatorId) # "ok"
       THEN CoordinatorCheck(coordinatorId)
  ELSE IF reqs[requestId].assigned_team_id = NULL THEN "StateError"
  ELSE "ok"

CompleteRead(p, requestId, coordinatorId, completionNotes) ==
  /\ calls[p].pc = "idle"
  /\ KnownRequest(requestId)
  /\ UNCHANGED <<reqs, teams>>
  /\ IF CompleteRequestOutcome(requestId, coordinatorId) # "ok"
     THEN UNCHANGED calls
     ELSE GotoWith(p, "complete_team", requestId,
                   reqs[requestId].assigned_team_id, coordinatorId,
                   completionNotes, reqs[requestId].notes)

CompleteTeamOutcome(teamId) == IF ~getTeamById(teamId) THEN "NotFound" ELSE "ok"

CompleteGetTeam(p) ==
  /\ calls[p].pc = "complete_team"
  /\ UNCHANGED <<reqs, teams>>
  /\ IF CompleteTeamOutcome(calls[p].t) # "ok" THEN Finish(p)
     ELSE calls' = [calls EXCEPT ![p].pc = "complete_tx"]

\* The notes written are built from the notes of the loaded instance.
CompleteRequestWrite(rq, seen, completionNotes) ==
  [rq EXCEPT !.status = "completed",
             !.notes = IF Truthy(completionNotes)
                       THEN seen \o <<CompletedSeparator, completionNotes>>
                       ELSE seen]

CompleteTeamWrite(tm) == [tm EXCEPT !.status = "available"]

CompleteTransaction(p, failure) ==
  /\ calls[p].pc = "complete_tx"
  /\ transaction(failure,
       [reqs EXCEPT ![calls[p].r] =
          CompleteRequestWrite(@, calls[p].seen, calls[p].text)],
       [teams EXCEPT ![calls[p].t] = CompleteTeamWrite(@)])
  /\ Finish(p)

\* The generic update: a whitelist patch, of which status, notes and
\* verified_by are modelled; userId is the authenticated caller.
RequestPatches ==
  [status : PatchStatuses \cup {Undefined}, notes : {Undefined},
   verified_by : {Undefined}, assigned_team_id : {Missing},
   user_id : {Undefined}]

NotesPatches ==
  [status : {Undefined}, notes : {"memo"}, verified_by : {Undefined},
   assigned_team_id : {Missing}, user_id : {Undefined}]

\* The patches of administrative correction: whitelisted fields, and
\* fields outside the whitelist (a team id, an owner).
NoEdit ==
  [status |-> Undefined, notes |-> Undefined, verified_by |-> Undefined,
   assigned_team_id |-> Missing, user_id |-> Undefined]

RequestEdits ==
  { [NoEdit EXCEPT !.status = "verified"],
    [NoEdit EXCEPT !.status = "on_mission"],
    [NoEdit EXCEPT !.notes = "memo"],
    [NoEdit EXCEPT !.assigned_team_id = 1],
    [NoEdit EXCEPT !.user_id = "coord"],
    [NoEdit EXCEPT !.status = "on_mission", !.assigned_team_id = 1] }

\* A faulty update that hands the whole patch to storage.
UpdateRequestWrite_NoWhitelist(rq, patch, userId) ==
  [rq EXCEPT
     !.status = IF patch.status = Undefined THEN @ ELSE patch.status,
     !.notes = IF patch.notes = Undefined THEN @ ELSE <<patch.notes>>,
     !.verified_by =
        IF patch.status = "verified" /\ userId # NoUser THEN userId
        ELSE IF patch.verified_by = Undefined THEN @
        ELSE patch.verified_by,
     !.assigned_team_id =
        IF patch.assigned_team_id = Missing THEN @ ELSE patch.assigned_team_id,
     !.user_id = IF patch.user_id = Undefined THEN @ ELSE patch.user_id]

UpdateRequestWrite(rq, patch, userId) ==
  [rq EXCEPT
     !.status = IF patch.status = Undefined THEN @ ELSE patch.status,
     !.notes = IF patch.notes = Undefined THEN @ ELSE <<patch.notes>>,
     !.verified_by =
        IF patch.status = "verified" /\ userId # NoUser THEN userId
        ELSE IF patch.verified_by = Undefined THEN @
        ELSE patch.verified_by]

RequestLookupOutcome(id) == IF ~getRescueRequestById(id) THEN "NotFound" ELSE "ok"

updateRescueRequest(p, id, patch, userId) ==
  /\ calls[p].pc = "idle"
  /\ KnownRequest(id)
  /\ UNCHANGED <<teams, calls>>
  /\ IF RequestLookupOutcome(id) # "ok" THEN UNCHANGED reqs
     ELSE reqs' = [reqs EXCEPT ![id] = UpdateRequestWrite(@, patch, userId)]

\* getAllRescueRequests: the rows that findAndCountAll returns for a status
\* filter (Undefined: no filter), and their count.
getAllRescueRequests(status) ==
  LET requests == {r \in ReqIds : getRescueRequestById(r)
                                   /\ (Truthy(status) => reqs[r].status = status)}
  IN [requests |-> requests, total |-> Cardinality(requests)]

\* getStatistics: count() and the counts grouped by status.
getStatistics ==
  [total |-> Cardinality({r \in ReqIds : getRescueRequestById(r)}),
   by_status |-> [s \in LifecycleStatuses |->
                    Cardinality({r \in ReqIds : getRescueRequestById(r)
                                                  /\ reqs[r].status = s})]]

deleteRescueRequest(p, id) ==
  /\ calls[p].pc = "idle"
  /\ KnownRequest(id)
  /\ UNCHANGED <<teams, calls>>
  /\ IF RequestLookupOutcome(id) # "ok" THEN UNCHANGED reqs
     ELSE reqs' = [reqs EXCEPT ![id].deleted = TRUE]

\* ----------------------------------------------------------- rescue teams
\* Input of createTeam: `required` stands for leader_name, phone_number and
\* province_city all being present.
TeamInputs ==
  [required : BOOLEAN, name : TeamNames \cup {Undefined},
   province_city : {"HCMC"}, specialization : {Undefined}]

\* The inputs of the roster: complete, over two areas and with or without
\* a specialization.
TeamSubmissions ==
  [required : {TRUE}, name : TeamNames,
   province_city : {"HCMC", "Hue"}, specialization : {Undefined, "medical"}]

\* created_at is the position of the insert among the inserts of teams.
NewTeam(name, province_city, specialization, created_at) ==
  [created |-> TRUE, deleted |-> FALSE, status |-> "available", name |-> name,
   province_city |-> province_city,
   specialization |-> IF Truthy(specialization) THEN specialization ELSE "general",
   created_at |-> created_at]

StoredTeam(call) ==
  NewTeam(call.name, call.province_city, call.specialization,
          Cardinality({t \in TeamIds : teams[t].created}) + 1)

FreeTeamIds == {t \in TeamIds : ~teams[t].created}

\* findOne({where: {name}}) on a paranoid model.
findOneByName(name) == \E t \in TeamIds : getTeamById(t) /\ teams[t].name = name

\* order: [["created_at", "ASC"]] over a set of team rows.
RECURSIVE OrderByCreatedAt(_)
OrderByCreatedAt(rows) ==
  IF rows = {} THEN << >>
  ELSE LET first == CHOOSE t \in rows :
                      \A o \in rows : teams[t].created_at <= teams[o].created_at
       IN <<first>> \o OrderByCreatedAt(rows \ {first})

\* A table without the unique index on name.
nameTaken_NoIndex(name, except) ==
  \E t \in TeamIds \ {except} : teams[t].created /\ teams[t].name = name /\ FALSE

\* The unique index on name covers every stored row but the one written.
nameTaken(name, except) ==
  \E t \in TeamIds \ {except} : teams[t].created /\ teams[t].name = name

\* A faulty createTeam that looks the name up before it validates.
CreateTeamOutcome_LookupFirst(d) ==
  IF Truthy(d.name) /\ findOneByName(d.name) THEN "Conflict"
  ELSE IF ~d.required \/ ~Truthy(d.name) THEN "Validation"
  ELSE "ok"

CreateTeamOutcome(d) ==
  IF ~d.required \/ ~Truthy(d.name) THEN "Validation"
  ELSE IF findOneByName(d.name) THEN "Conflict"
  ELSE "ok"

CreateTeamRead(p, d) ==
  /\ calls[p].pc = "idle"
  /\ UNCHANGED <<reqs, teams>>
  /\ IF CreateTeamOutcome(d) # "ok" THEN UNCHANGED calls
     ELSE calls' = [calls EXCEPT ![p] =
                      [InFlight("create_team", NULL, NULL, NoUser)
                         EXCEPT !.name = d.name,
                                !.province_city = d.province_city,
                                !.specialization = d.specialization]]

CreateTeamInsert(p) ==
  /\ calls[p].pc = "create_team"
  /\ UNCHANGED reqs
  /\ IF nameTaken(calls[p].name, NULL)
     THEN Finish(p) /\ UNCHANGED teams
     ELSE /\ FreeTeamIds # {}
          /\ Rows < MaxRows
          /\ LET id == CHOOSE t \in FreeTeamIds : \A o \in FreeTeamIds : t <= o
             IN teams' = [teams EXCEPT ![id] = StoredTeam(calls[p])]
          /\ Finish(p)

\* updateTeam: a whitelist patch, of which status and name are modelled.
TeamPatches ==
  [status : {"available", "on_mission", Undefined}, name : {Undefined},
   deletedAt : {Undefined}]
    \cup [status : {Undefined}, name : TeamNames, deletedAt : {Undefined}]

\* The patches of team administration: a status, a new name, or a field
\* outside the whitelist (the deletion mark).
TeamEdits ==
  [status : TeamStatuses, name : {Undefined}, deletedAt : {Undefined}]
    \cup [status : {Undefined}, name : TeamNames, deletedAt : {Undefined}]
    \cup [status : {Undefined}, name : {Undefined}, deletedAt : {"now"}]

\* A faulty update that hands the whole patch to storage.
UpdateTeamWrite_NoWhitelist(tm, patch) ==
  [tm EXCEPT !.status = IF patch.status = Undefined THEN @ ELSE patch.status,
             !.name = IF patch.name = Undefined THEN @ ELSE patch.name,
             !.deleted = IF patch.deletedAt = Undefined THEN @ ELSE TRUE]

UpdateTeamWrite(tm, patch) ==
  [tm EXCEPT !.status = IF patch.status = Undefined THEN @ ELSE patch.status,
             !.name = IF patch.name = Undefined THEN @ ELSE patch.name]

UpdateTeamOutcome(id, patch) ==
  IF ~getTeamById(id) THEN "NotFound"
  ELSE IF patch.name # Undefined /\ nameTaken(patch.name, id) THEN "DbError"
  ELSE "ok"

updateTeam(p, id, patch) ==
  /\ calls[p].pc = "idle"
  /\ KnownTeam(id)
  /\ UNCHANGED <<reqs, calls>>
  /\ IF UpdateTeamOutcome(id, patch) # "ok" THEN UNCHANGED teams
     ELSE teams' = [teams EXCEPT ![id] = UpdateTeamWrite(@, patch)]

\* A faulty listing that leaves the status out of the query.
getAvailableTeams_AnyStatus(province_city, specialization) ==
  LET where(t) ==
        /\ getTeamById(t)
        /\ Truthy(province_city) => teams[t].province_city = province_city
        /\ Truthy(specialization) => teams[t].specialization = specialization
  IN OrderByCreatedAt({t \in TeamIds : where(t)})

\* getAvailableTeams: findAll on the paranoid model with the where clause
\* the filters build, ordered by created_at ascending; the result is the
\* sequence of the ids of the rows.
getAvailableTeams(province_city, specialization) ==
  LET where(t) ==
        /\ getTeamById(t)
        /\ teams[t].status = "available"
        /\ Truthy(province_city) => teams[t].province_city = province_city
        /\ Truthy(specialization) => teams[t].specialization = specialization
  IN OrderByCreatedAt({t \in TeamIds : where(t)})

DeleteTeamOutcome(id) ==
  IF ~getTeamById(id) THEN "NotFound"
  ELSE IF teams[id].status = "on_mission" THEN "Conflict"
  ELSE "ok"

DeleteTeamRead(p, id) ==
  /\ calls[p].pc = "idle"
  /\ KnownTeam(id)
  /\ UNCHANGED <<reqs, teams>>
  /\ IF DeleteTeamOutcome(id) # "ok" THEN UNCHANGED calls
     ELSE Goto(p, "delete_team", NULL, id, NoUser)

DeleteTeamDestroy(p) ==
  /\ calls[p].pc = "delete_team"
  /\ teams' = [teams EXCEPT ![calls[p].t].deleted = TRUE]
  /\ Finish(p)
  /\ UNCHANGED reqs

SetTeamOnMissionOutcome(teamId) ==
  IF ~getTeamById(teamId) THEN "NotFound"
  ELSE IF teams[teamId].status # "available" THEN "Conflict"
  ELSE "ok"

SetTeamOnMissionRead(p, teamId) ==
  /\ calls[p].pc = "idle"
  /\ KnownTeam(teamId)
  /\ UNCHANGED <<reqs, teams>>
  /\ IF SetTeamOnMissionOutcome(teamId) # "ok" THEN UNCHANGED calls
     ELSE Goto(p, "set_on_mission", NULL, teamId, NoUser)

SetTeamOnMissionUpdate(p) ==
  /\ calls[p].pc = "set_on_mission"
  /\ teams' = [teams EXCEPT ![calls[p].t].status = "on_mission"]
  /\ Finish(p)
  /\ UNCHANGED reqs

SetTeamAvailableOutcome(teamId) == IF ~getTeamById(teamId) THEN "NotFound" ELSE "ok"

setTeamAvailable(p, teamId) ==
  /\ calls[p].pc = "idle"
  /\ KnownTeam(teamId)
  /\ UNCHANGED <<reqs, calls>>
  /\ IF SetTeamAvailableOutcome(teamId) # "ok" THEN UNCHANGED teams
     ELSE teams' = [teams EXCEPT ![teamId].status = "available"]

\* ------------------------------------------------------------ HTTP layer
\* The message of a thrown Error is a sequence of text pieces; NoError is
\* the call that returns.  String.includes looks for a piece.
NoError == << >>

includes(message, text) == \E i \in DOMAIN message : message[i] = text

RequestNotFoundMessage == <<"Rescue request not found">>
TeamNotFoundMessage == <<"Team not found">>
CoordinatorNotFoundMessage == <<"Coordinator not found">>
OnlyCoordinatorsMessage(what) == <<"Only coordinators", " or admins can ", what>>
CannotMessage(what, status) == <<"Cannot ", what, " request with status ", status>>

\* The message the role gate of a service method throws.
CoordinatorError(actor, what) ==
  IF actor \notin DOMAIN Users THEN CoordinatorNotFoundMessage
  ELSE IF Users[actor] \notin {"coordinator", "admin"} THEN OnlyCoordinatorsMessage(what)
  ELSE NoError

ApproveError(id, coordinatorId) ==
  IF ~getRescueRequestById(id) THEN RequestNotFoundMessage
  ELSE IF reqs[id].status # "new" THEN CannotMessage("approve", reqs[id].status)
  ELSE CoordinatorError(coordinatorId, "approve requests")

RejectError(id, coordinatorId, reason) ==
  IF ReasonBlank(reason) THEN <<"Rejection reason is required">>
  ELSE IF ~getRescueRequestById(id) THEN RequestNotFoundMessage
  ELSE IF reqs[id].status # "new" THEN CannotMessage("reject", reqs[id].status)
  ELSE CoordinatorError(coordinatorId, "reject requests")

AssignError(requestId, teamId, coordinatorId) ==
  IF ~getRescueRequestById(requestId) THEN RequestNotFoundMessage
  ELSE IF reqs[requestId].status # "pending_verification"
       THEN CannotMessage("assign team to", reqs[requestId].status)
  ELSE IF CoordinatorError(coordinatorId, "assign teams") # NoError
       THEN CoordinatorError(coordinatorId, "assign teams")
  ELSE IF ~getTeamById(teamId) THEN TeamNotFoundMessage
  ELSE IF teams[teamId].status # "available"
       THEN <<"Team '", teams[teamId].name, "' is not available. Current status: ",
              teams[teamId].status>>
  ELSE NoError

CompleteError(requestId, coordinatorId) ==
  IF ~getRescueRequestById(requestId) THEN RequestNotFoundMessage
  ELSE IF reqs[requestId].status # "on_mission"
       THEN CannotMessage("complete", reqs[requestId].status)
  ELSE IF CoordinatorError(coordinatorId, "complete missions") # NoError
       THEN CoordinatorError(coordinatorId, "complete missions")
  ELSE IF reqs[requestId].assigned_team_id = NULL
       THEN <<"No team assigned to this request">>
  ELSE IF ~getTeamById(reqs[requestId].assigned_team_id) THEN TeamNotFoundMessage
  ELSE NoError

CreateTeamError(d) ==
  IF ~d.required \/ ~Truthy(d.name) THEN <<"Missing required fields">>
  ELSE IF findOneByName(d.name) THEN <<"Team with this name ", "already exists">>
  ELSE NoError

DeleteTeamError(id) ==
  IF ~getTeamById(id) THEN TeamNotFoundMessage
  ELSE IF teams[id].status = "on_mission"
       THEN <<"Cannot delete team that is currently on mission">>
  ELSE NoError

\* The status code each controller method answers with.
approveStatusCode(id, coordinatorId) ==
  LET error == ApproveError(id, coordinatorId)
  IN IF error = NoError THEN 200
     ELSE IF error = RequestNotFoundMessage THEN 404
     ELSE IF includes(error, "Only coordinators") THEN 403
     ELSE 400

rejectStatusCode(id, coordinatorId, reason) ==
  IF ~Truthy(reason) THEN 400
  ELSE LET error == RejectError(id, coordinatorId, reason)
       IN IF error = NoError THEN 200
          ELSE IF error = RequestNotFoundMessage THEN 404
          ELSE IF includes(error, "Only coordinators") THEN 403
          ELSE 400

assignTeamStatusCode(id, team_id, coordinatorId) ==
  IF team_id = NULL THEN 400
  ELSE LET error == AssignError(id, team_id, coordinatorId)
       IN IF error = NoError THEN 200
          ELSE IF error = RequestNotFoundMessage \/ error = TeamNotFoundMessage THEN 404
          ELSE IF includes(error, "Only coordinators") THEN 403
          ELSE 400

completeMissionStatusCode(id, coordinatorId) ==
  LET error == CompleteError(id, coordinatorId)
  IN IF error = NoError THEN 200
     ELSE IF error = RequestNotFoundMessage THEN 404
     ELSE IF includes(error, "Only coordinators") THEN 403
     ELSE 400

createTeamStatusCode(d) ==
  LET error == CreateTeamError(d)
  IN IF error = NoError THEN 201
     ELSE IF includes(error, "already exists") THEN 409
     ELSE 400

deleteTeamStatusCode(id) ==
  LET error == DeleteTeamError(id)
  IN IF error = NoError THEN 200
     ELSE IF error = TeamNotFoundMessage THEN 404
     ELSE 400

\* The Authorization header of a request: absent, "Bearer " with nothing
\* after it, a token that does not verify, or the token of a user.
Headers == {"none", "empty", "invalid", "coord", "citizen"}

\* UserService.verifyToken, the identity gateway: the user the token belongs
\* to, or a throw.
verifyToken(token) == IF token \in DOMAIN Users THEN token ELSE "throws"

\* A middleware either answers with a status or calls next() (status 0)
\* with the user it attached to the request.
Answer(status) == [status |-> status, user |-> NoUser]
CallNext(user) == [status |-> 0, user |-> user]

optionalAuth(header) ==
  IF header = "none" THEN CallNext(NoUser)
  ELSE IF header = "empty" THEN CallNext(NoUser)
  ELSE IF verifyToken(header) = "throws" THEN CallNext(NoUser)
  ELSE CallNext(verifyToken(header))

requireAuth(header) ==
  IF header = "none" THEN Answer(401)
  ELSE IF header = "empty" THEN Answer(401)
  ELSE IF verifyToken(header) = "throws" THEN Answer(401)
  ELSE CallNext(verifyToken(header))

requireAdminOrCoordinator(header) ==
  IF header = "none" THEN Answer(401)
  ELSE IF header = "empty" THEN Answer(401)
  ELSE IF verifyToken(header) = "throws" THEN Answer(401)
  ELSE IF Users[verifyToken(header)] \notin {"admin", "coordinator"} THEN Answer(403)
  ELSE CallNext(verifyToken(header))

\* The routes of the rescue-request router and the middleware in front of
\* each; an operation that is not in the table has no route, and the
\* framework answers 404 without calling a handler.
router ==
  [statistics |-> "public", list |-> "optionalAuth", create |-> "optionalAuth",
   getById |-> "public", approve |-> "requireAdminOrCoordinator",
   reject |-> "requireAdminOrCoordinator", update |-> "requireAuth",
   delete |-> "requireAuth"]

admit(operation, header) ==
  IF operation \notin DOMAIN router THEN Answer(404)
  ELSE IF router[operation] = "optionalAuth" THEN optionalAuth(header)
  ELSE IF router[operation] = "requireAuth" THEN requireAuth(header)
  ELSE IF router[operation] = "requireAdminOrCoordinator"
       THEN requireAdminOrCoordinator(header)
  ELSE CallNext(NoUser)

\* The status code of a triage request, from the middleware or the handler.
httpApproveCode(header, id) ==
  IF admit("approve", header).status # 0 THEN admit("approve", header).status
  ELSE approveStatusCode(id, admit("approve", header).user)

httpRejectCode(header, id, reason) ==
  IF admit("reject", header).status # 0 THEN admit("reject", header).status
  ELSE rejectStatusCode(id, admit("reject", header).user, reason)

httpAssignCode(header, id, team_id) ==
  IF admit("assign", header).status # 0 THEN admit("assign", header).status
  ELSE assignTeamStatusCode(id, team_id, admit("assign", header).user)

httpCompleteCode(header, id) ==
  IF admit("complete", header).status # 0 THEN admit("complete", header).status
  ELSE completeMissionStatusCode(id, admit("complete", header).user)

\* The requests that change state: the middleware, then the controller's
\* call of the service with the user of the request.
httpCreate(p, header, d) ==
  /\ admit("create", header).status = 0
  /\ createRescueRequest(p, d, admit("create", header).user)

httpApprove(p, header, id) ==
  IF admit("approve", header).status # 0 THEN UNCHANGED vars
  ELSE ApproveRead(p, id, admit("approve", header).user, Undefined)

httpReject(p, header, id, reason) ==
  IF admit("reject", header).status # 0 \/ ~Truthy(reason) THEN UNCHANGED vars
  ELSE RejectRead(p, id, admit("reject", header).user, reason)

httpUpdate(p, header, id, patch) ==
  IF admit("update", header).status # 0 THEN UNCHANGED vars
  ELSE updateRescueRequest(p, id, patch, admit("update", header).user)

httpDelete(p, header, id) ==
  IF admit("delete", header).status # 0 THEN UNCHANGED vars
  ELSE deleteRescueRequest(p, id)

\* ---------------------------------------------------------- specification
\* The guarded lifecycle: creation, triage, assignment, completion, deletion.
LifecycleNext ==
  \E p \in Procs :
    \/ \E d \in RequestInputs : createRescueRequest(p, d, NoUser)
    \/ \E id \in ReqIds, a \in Actors : ApproveRead(p, id, a, Undefined)
    \/ ApproveUpdate(p)
    \/ \E id \in ReqIds, a \in Actors, reason \in ReasonInputs :
         RejectRead(p, id, a, reason)
    \/ RejectUpdate(p)
    \/ \E id \in ReqIds, t \in TeamIds, a \in Actors :
         AssignRead(p, id, t, a)
    \/ AssignGetTeam(p)
    \/ \E f \in TxFailures : AssignTransaction(p, f)
    \/ \E id \in ReqIds, a \in Actors : CompleteRead(p, id, a, Undefined)
    \/ CompleteGetTeam(p)
    \/ \E f \in TxFailures : CompleteTransaction(p, f)
    \/ \E id \in ReqIds : deleteRescueRequest(p, id)
    \/ \E d \in TeamInputs : CreateTeamRead(p, d)
    \/ CreateTeamInsert(p)
    \/ \E id \in TeamIds : DeleteTeamRead(p, id)
    \/ DeleteTeamDestroy(p)

\* The administrative operations that write a status directly.
AdminNext ==
  \E p \in Procs :
    \/ \E id \in ReqIds, patch \in RequestPatches :
         updateRescueRequest(p, id, patch, "coord")
    \/ \E id \in TeamIds, patch \in TeamPatches : updateTeam(p, id, patch)
    \/ \E id \in TeamIds : SetTeamOnMissionRead(p, id)
    \/ SetTeamOnMissionUpdate(p)
    \/ \E id \in TeamIds : setTeamAvailable(p, id)

Next == LifecycleNext \/ AdminNext

Spec == Init /\ [][Next]_vars

LifecycleSpec == Init /\ [][LifecycleNext]_vars

\* The audit trail: triage with free-text arguments of every kind, and the
\* administrative correction of notes.
ApproveNotes == {Undefined, "checked"}
CompletionNotes == {Undefined, "all safe"}

AuditNext ==
  \E p \in Procs :
    \/ \E d \in RequestInputs : createRescueRequest(p, d, NoUser)
    \/ \E id \in ReqIds, a \in Actors, n \in ApproveNotes :
         ApproveRead(p, id, a, n)
    \/ ApproveUpdate(p)
    \/ \E id \in ReqIds, a \in Actors, reason \in ReasonInputs :
         RejectRead(p, id, a, reason)
    \/ RejectUpdate(p)
    \/ \E id \in ReqIds, t \in TeamIds, a \in Actors :
         AssignRead(p, id, t, a)
    \/ AssignGetTeam(p)
    \/ \E f \in TxFailures : AssignTransaction(p, f)
    \/ \E id \in ReqIds, a \in Actors, c \in CompletionNotes :
         CompleteRead(p, id, a, c)
    \/ CompleteGetTeam(p)
    \/ \E f \in TxFailures : CompleteTransaction(p, f)
    \/ \E id \in ReqIds, patch \in NotesPatches :
         updateRescueRequest(p, id, patch, "coord")
    \/ \E d \in TeamInputs : CreateTeamRead(p, d)
    \/ CreateTeamInsert(p)

AuditSpec == Init /\ [][AuditNext]_vars

\* Team administration on its own: creation, patches of every kind,
\* deletion and the direct status transitions.
TeamNext ==
  \E p \in Procs :
    \/ \E d \in TeamInputs : CreateTeamRead(p, d)
    \/ CreateTeamInsert(p)
    \/ \E id \in TeamIds, patch \in TeamEdits : updateTeam(p, id, patch)
    \/ \E id \in TeamIds : DeleteTeamRead(p, id)
    \/ DeleteTeamDestroy(p)
    \/ \E id \in TeamIds : SetTeamOnMissionRead(p, id)
    \/ SetTeamOnMissionUpdate(p)
    \/ \E id \in TeamIds : setTeamAvailable(p, id)

TeamSpec == Init /\ [][TeamNext]_vars

\* The roster: teams of several areas and specializations are created,
\* change status, and are deleted.
RosterNext ==
  \E p \in Procs :
    \/ \E d \in TeamSubmissions : CreateTeamRead(p, d)
    \/ CreateTeamInsert(p)
    \/ \E id \in TeamIds, patch \in TeamEdits : updateTeam(p, id, patch)
    \/ \E id \in TeamIds : DeleteTeamRead(p, id)
    \/ DeleteTeamDestroy(p)
    \/ \E id \in TeamIds : setTeamAvailable(p, id)

RosterSpec == Init /\ [][RosterNext]_vars

\* One call at a time: a single coordinator takes requests through the
\* whole lifecycle, so no call starts while another is under way.  Storage
\* does with each request write what the declared model allows.
SerialCallers == {p \in Procs : \A q \in Procs : p <= q}

SerialNext ==
  \E p \in SerialCallers :
    \/ \E d \in RequestInputs : createRescueRequest(p, d, NoUser)
    \/ \E d \in TeamInputs : CreateTeamRead(p, d)
    \/ CreateTeamInsert(p)
    \/ \E id \in ReqIds, n \in ApproveNotes : ApproveRead(p, id, "coord", n)
    \/ ApproveUpdate(p)
    \/ \E id \in ReqIds, t \in TeamIds : AssignRead(p, id, t, "coord")
    \/ AssignGetTeam(p)
    \/ \E f \in RequestWriteOutcomes(AssignRequestWrite(NoRequest, NULL, NoUser)) :
         AssignTransaction(p, f)
    \/ \E id \in ReqIds, c \in CompletionNotes : CompleteRead(p, id, "coord", c)
    \/ CompleteGetTeam(p)
    \/ \E f \in RequestWriteOutcomes(CompleteRequestWrite(NoRequest, NoNotes, Undefined)) :
         CompleteTransaction(p, f)

SerialSpec == Init /\ [][SerialNext]_vars

\* Missions under administration: the serial lifecycle, with updateTeam
\* calls between its calls.
MissionNext ==
  \/ SerialNext
  \/ \E p \in SerialCallers, id \in TeamIds, patch \in TeamEdits :
       updateTeam(p, id, patch)

MissionSpec == Init /\ [][MissionNext]_vars

\* Administrative correction on its own: requests are submitted, patched
\* with every kind of patch and deleted, next to stored teams.
CorrectionNext ==
  \E p \in Procs :
    \/ \E d \in RequestInputs, u \in Creators : createRescueRequest(p, d, u)
    \/ \E id \in ReqIds, patch \in RequestEdits, u \in {NoUser, "coord"} :
         updateRescueRequest(p, id, patch, u)
    \/ \E id \in ReqIds : deleteRescueRequest(p, id)
    \/ CreateTeamRead(p, [required |-> TRUE, name |-> "Alpha",
                          province_city |-> "HCMC", specialization |-> Undefined])
    \/ CreateTeamInsert(p)

CorrectionSpec == Init /\ [][CorrectionNext]_vars

\* The rescue-request routes as HTTP clients reach them.
HttpNext ==
  \E p \in Procs :
    \/ \E h \in Headers, d \in RequestInputs : httpCreate(p, h, d)
    \/ \E h \in Headers, id \in ReqIds : httpApprove(p, h, id)
    \/ ApproveUpdate(p)
    \/ \E h \in Headers, id \in ReqIds, reason \in ReasonInputs :
         httpReject(p, h, id, reason)
    \/ RejectUpdate(p)
    \/ \E h \in Headers, id \in ReqIds, patch \in RequestPatches :
         httpUpdate(p, h, id, patch)
    \/ \E h \in Headers, id \in ReqIds : httpDelete(p, h, id)

HttpSpec == Init /\ [][HttpNext]_vars

\* The intake: submissions of every shape, and soft deletion.
IntakeNext ==
  \E p \in Procs :
    \/ \E d \in IntakeInputs, u \in Creators : createRescueRequest(p, d, u)
    \/ \E id \in ReqIds : deleteRescueRequest(p, id)

IntakeSpec == Init /\ [][IntakeNext]_vars

\* ------------------------------------------------------------- properties
OnMissionWithIn(rs, r, t) ==
  /\ rs[r].created /\ ~rs[r].deleted
  /\ rs[r].status = "on_mission"
  /\ rs[r].assigned_team_id = t

OnMissionWith(r, t) == OnMissionWithIn(reqs, r, t)

TeamOnMissionIn(ts, t) ==
  ts[t].created /\ ~ts[t].deleted /\ ts[t].status = "on_mission"

TeamOnMission(t) == TeamOnMissionIn(teams, t)

\* The step in which the assignTeam call of p commits its unit of work.
AssignCommits(p) == AssignTransaction(p, "none")

\* The step in which the completeMission call of p commits its unit of work.
CompleteCommits(p) == CompleteTransaction(p, "none")

\* C1: of two assignTeam calls racing for one available team and two
\* pending requests only one succeeds: no assignTeam call commits into a
\* state where another request is on a mission with the same team.
C1_OneAssignWinsTheTeam ==
  [][\A p \in Procs :
       AssignCommits(p) =>
         \A r2 \in ReqIds \ {calls[p].r} :
           ~OnMissionWithIn(reqs', r2, calls[p].t)]_vars

\* C2: every non-deleted team whose status is on_mission is referenced by
\* exactly one non-deleted request whose status is on_mission.
C2_OnMissionTeamHasOneRequest ==
  \A t \in TeamIds :
    TeamOnMission(t) => Cardinality({r \in ReqIds : OnMissionWith(r, t)}) = 1

\* C3: the team named by a non-deleted on_mission request has status
\* on_mission.
C3_OnMissionRequestHasOnMissionTeam ==
  \A r \in ReqIds :
    (/\ getRescueRequestById(r)
     /\ reqs[r].status = "on_mission"
     /\ reqs[r].assigned_team_id # NULL)
      => teams[reqs[r].assigned_team_id].status = "on_mission"

TransitionTable ==
  {<<"new", "pending_verification">>, <<"new", "rejected">>,
   <<"pending_verification", "on_mission">>, <<"on_mission", "completed">>}

C5_StatusFollowsTransitionTable ==
  [][\A r \in ReqIds :
       (reqs[r].created /\ reqs'[r].status # reqs[r].status)
         => <<reqs[r].status, reqs'[r].status>> \in TransitionTable]_vars

\* C6: assignTeam succeeds only if, when its writes are applied, the request
\* is pending_verification and the team available; afterwards the request
\* is on_mission with the team and the actor recorded, the team on_mission.
C6_AssignPreAndPost ==
  [][\A p \in Procs :
       AssignCommits(p) =>
         /\ reqs[calls[p].r].status = "pending_verification"
         /\ teams[calls[p].t].status = "available"
         /\ reqs'[calls[p].r].status = "on_mission"
         /\ reqs'[calls[p].r].assigned_team_id = calls[p].t
         /\ reqs'[calls[p].r].assigned_by = calls[p].actor
         /\ teams'[calls[p].t].status = "on_mission"]_vars

\* C7: completeMission succeeds only on an on_mission request; afterwards
\* the request is completed and the team it names is available.
C7_CompletePreAndPost ==
  [][\A p \in Procs :
       CompleteCommits(p) =>
         /\ reqs[calls[p].r].status = "on_mission"
         /\ reqs'[calls[p].r].status = "completed"
         /\ teams'[reqs'[calls[p].r].assigned_team_id].status = "available"]_vars

\* C8: every step of an assignTeam or completeMission call either leaves
\* both tables as they were or applies the request write and the team write
\* together, to that request and that team only.
OnlyRowsChanged(r, t) ==
  /\ \A o \in ReqIds \ {r} : reqs'[o] = reqs[o]
  /\ \A o \in TeamIds \ {t} : teams'[o] = teams[o]

C8_PairedWriteIsAtomic ==
  [][\A p \in Procs :
       LET c == calls[p] IN
       /\ (calls'[p].pc \in {"assign_team", "complete_team"} /\ calls'[p] # c)
            => UNCHANGED <<reqs, teams>>
       /\ (c.pc \in {"assign_team", "complete_team"} /\ calls'[p] # c)
            => UNCHANGED <<reqs, teams>>
       /\ (c.pc = "assign_tx" /\ calls'[p] # c)
            => \/ UNCHANGED <<reqs, teams>>
               \/ /\ reqs'[c.r].status = "on_mission"
                  /\ reqs'[c.r].assigned_team_id = c.t
                  /\ teams'[c.t].status = "on_mission"
                  /\ OnlyRowsChanged(c.r, c.t)
       /\ (c.pc = "complete_tx" /\ calls'[p] # c)
            => \/ UNCHANGED <<reqs, teams>>
               \/ /\ reqs'[c.r].status = "completed"
                  /\ teams'[c.t].status = "available"
                  /\ OnlyRowsChanged(c.r, c.t)]_vars

\* A committed assignment is visible whole while another caller is about to
\* run its own unit of work.
C8_Witness ==
  \E r \in ReqIds, t \in TeamIds, p \in Procs :
    /\ OnMissionWith(r, t) /\ TeamOnMission(t)
    /\ calls[p].pc = "assign_tx" /\ calls[p].r # r

\* C9: a team is referenced by at most one non-deleted on_mission request.
C9_AtMostOneMissionPerTeam ==
  \A t \in TeamIds : Cardinality({r \in ReqIds : OnMissionWith(r, t)}) <= 1

\* C10: of two assignTeam calls racing for one pending request with two
\* teams at most one succeeds, and after a successful call no team is
\* on_mission without a request's assigned_team_id naming it.
C10_OneAssignWinsTheRequest ==
  [][\A p \in Procs :
       AssignCommits(p) =>
         /\ ~(/\ reqs[calls[p].r].status = "on_mission"
              /\ reqs[calls[p].r].assigned_team_id \notin {NULL, calls[p].t})
         /\ \A t \in TeamIds :
              TeamOnMissionIn(teams', t) =>
                \E r \in ReqIds :
                  reqs'[r].created /\ reqs'[r].assigned_team_id = t]_vars

\* C11: soft-deleting an on_mission request strands no team: after the
\* delete, the team the request named is not left on_mission with no
\* non-deleted on_mission request naming it.
C11_DeleteStrandsNoTeam ==
  [][\A p \in Procs, r \in ReqIds :
       (/\ deleteRescueRequest(p, r)
        /\ getRescueRequestById(r)
        /\ reqs[r].status = "on_mission")
         => \A t \in TeamIds :
              (reqs[r].assigned_team_id = t /\ TeamOnMissionIn(teams', t))
                => \E r2 \in ReqIds : OnMissionWithIn(reqs', r2, t)]_vars

\* C12: assigned_team_id is set exactly when the status is on_mission or
\* completed, and once set it is never cleared nor changed to another team.
C12_AssignedTeamFollowsStatus ==
  [][\A r \in ReqIds :
       /\ reqs'[r].created =>
            (reqs'[r].assigned_team_id # NULL
               <=> reqs'[r].status \in {"on_mission", "completed"})
       /\ reqs[r].assigned_team_id # NULL =>
            reqs'[r].assigned_team_id = reqs[r].assigned_team_id]_vars

\* C13: approve succeeds only on an existing, non-deleted request whose
\* status is new, and then stores pending_verification, the actor as
\* verifier and the given notes or the default audit string; on a request
\* with any other status it fails with a state error.
C13_ApprovePreAndPost ==
  /\ [](\A id \in ReqIds, a \in Actors :
          (getRescueRequestById(id) /\ reqs[id].status # "new")
            => ApproveOutcome(id, a) = "StateError")
  /\ [][\A p \in Procs :
          ApproveUpdate(p) =>
            LET r == calls[p].r IN
            /\ getRescueRequestById(r)
            /\ reqs[r].status = "new"
            /\ reqs'[r].status = "pending_verification"
            /\ reqs'[r].verified_by = calls[p].actor
            /\ reqs'[r].notes =
                 IF Truthy(calls[p].text) THEN <<calls[p].text>>
                 ELSE <<ApprovedByDefault>>]_vars

\* C14: reject with an absent, empty or whitespace-only reason fails with a
\* validation error before any lookup; otherwise it succeeds only on a
\* request whose status is new, and then stores rejected, the actor as
\* verifier and "Rejected: " followed by the reason as notes.
C14_RejectPreAndPost ==
  /\ [](\A id \in ReqIds, a \in Actors, reason \in {Undefined, "", " "} :
          RejectOutcome(id, a, reason) = "Validation")
  /\ [][\A p \in Procs :
          RejectUpdate(p) =>
            LET r == calls[p].r IN
            /\ calls[p].text \notin {Undefined, "", " "}
            /\ getRescueRequestById(r)
            /\ reqs[r].status = "new"
            /\ reqs'[r].status = "rejected"
            /\ reqs'[r].verified_by = calls[p].actor
            /\ reqs'[r].notes = <<"Rejected: ", calls[p].text>>]_vars

\* The error the role gate owes an actor who may not triage.
Refused(a) == a \notin DOMAIN Users \/ Users[a] = "citizen"

GateError(a) == IF a \notin DOMAIN Users THEN "NotFound" ELSE "Forbidden"

\* C15 (as stated): a triage call by a citizen fails with a forbidden error
\* and one by an unknown actor with a not-found error, whatever the request.
C15_GateErrorWhateverTheRequest ==
  \A id \in ReqIds, a \in Actors :
    (KnownRequest(id) /\ Refused(a)) =>
      /\ ApproveOutcome(id, a) = GateError(a)
      /\ RejectOutcome(id, a, "dup") = GateError(a)
      /\ AssignRequestOutcome(id, a) = GateError(a)
      /\ CompleteRequestOutcome(id, a) = GateError(a)

\* C15 (amended): a triage call by a citizen or an unknown actor always
\* fails; it fails with the forbidden (not-found) error when the request is
\* there and in the status the operation requires, and with the error of
\* that earlier check otherwise.  Every triage write is made for an actor
\* whose role is coordinator or admin.
C15_RoleGate ==
  /\ [](\A id \in ReqIds, a \in Actors :
          Refused(a) =>
            LET live == getRescueRequestById(id) IN
            /\ ApproveOutcome(id, a) # "ok"
            /\ RejectOutcome(id, a, "dup") # "ok"
            /\ AssignRequestOutcome(id, a) # "ok"
            /\ CompleteRequestOutcome(id, a) # "ok"
            /\ (live /\ reqs[id].status = "new") =>
                 /\ ApproveOutcome(id, a) = GateError(a)
                 /\ RejectOutcome(id, a, "dup") = GateError(a)
            /\ (live /\ reqs[id].status = "pending_verification") =>
                 AssignRequestOutcome(id, a) = GateError(a)
            /\ (live /\ reqs[id].status = "on_mission") =>
                 CompleteRequestOutcome(id, a) = GateError(a))
  /\ [][\A p \in Procs :
          (\/ ApproveUpdate(p) \/ RejectUpdate(p)
           \/ AssignCommits(p) \/ CompleteCommits(p))
            => /\ calls[p].actor \in DOMAIN Users
               /\ Users[calls[p].actor] \in {"coordinator", "admin"}]_vars

\* A new request and a request on a mission, each refusing the citizen at
\* the role gate.
C15_Witness ==
  \E r1, r2 \in ReqIds :
    /\ getRescueRequestById(r1) /\ reqs[r1].status = "new"
    /\ ApproveOutcome(r1, "citizen") = "Forbidden"
    /\ RejectOutcome(r1, "ghost", "dup") = "NotFound"
    /\ getRescueRequestById(r2) /\ reqs[r2].status = "on_mission"
    /\ reqs[r2].assigned_by = "coord"
    /\ CompleteRequestOutcome(r2, "citizen") = "Forbidden"

\* C16: completeMission appends to notes and never overwrites: with
\* completion notes c on a request whose notes were n, the new notes begin
\* with n and end with c; without completion notes, notes stay as they were.
C16_CompleteAppendsNotes ==
  [][\A p \in Procs :
       CompleteCommits(p) =>
         LET n == reqs[calls[p].r].notes
             m == reqs'[calls[p].r].notes
             c == calls[p].text
         IN IF Truthy(c)
            THEN Prefix(n, m) /\ Len(m) > 0 /\ m[Len(m)] = c
            ELSE m = n]_vars

\* C17: notes are append-only across triage: after approve, reject,
\* assignTeam or completeMission on a request whose notes are non-empty, the
\* notes still begin with the notes from before the operation.
C17_TriageKeepsNotes ==
  [][\A p \in Procs :
       (\/ ApproveUpdate(p) \/ RejectUpdate(p)
        \/ AssignCommits(p) \/ CompleteCommits(p))
         => (reqs[calls[p].r].notes # NoNotes
               => Prefix(reqs[calls[p].r].notes, reqs'[calls[p].r].notes))]_vars

\* A submission that lacks a required field, the coordinates of a gps
\* location or the address of a manual one.
Incomplete(d) ==
  \/ \E f \in {"category", "province_city", "phone_number", "description",
                "location_type"} : d[f] = Undefined
  \/ d.location_type = "gps" /\ (d.latitude = Missing \/ d.longitude = Missing)
  \/ d.location_type = "manual" /\ d.address = Undefined

\* C18: createRequest fails with a validation error on every incomplete
\* submission, and every request it persists comes from a complete one.
C18_IncompleteSubmissionRefused ==
  /\ [](\A d \in IntakeInputs :
          Incomplete(d) => createRequestOutcome(d) = "Validation")
  /\ [][\A r \in ReqIds :
          (~reqs[r].created /\ reqs'[r].created) =>
            \E d \in IntakeInputs, u \in Creators :
              ~Incomplete(d) /\ reqs'[r] = NewRequest(d, u)]_vars

\* Requests of both location forms are stored while an incomplete
\* submission is refused.
C18_Witness ==
  /\ \E r1, r2 \in ReqIds :
       reqs[r1].location_type = "gps" /\ reqs[r2].location_type = "manual"
  /\ createRequestOutcome(FullRequest("gps", Missing, 106, Undefined)) = "Validation"
  /\ createRequestOutcome(FullRequest("manual", 10, 106, Undefined)) = "Validation"

\* C19: while storage has room, createRequest accepts every gps submission
\* with all required fields, a latitude in [-90, 90] and a longitude in
\* [-180, 180], the bounds and 0 included.
C19_CoordinatesInRangeAccepted ==
  \A d \in IntakeInputs :
    (/\ FreeReqIds # {}
     /\ \A f \in {"category", "province_city", "phone_number", "description"} :
          Truthy(d[f])
     /\ d.location_type = "gps"
     /\ d.latitude \in -90..90
     /\ d.longitude \in -180..180)
      => createRequestOutcome(d) = "ok"

\* C20: every persisted request has exactly the location form its
\* location_type names: coordinates and no address for gps, an address and
\* no coordinates for manual, and no other location_type.
C20_OneLocationForm ==
  \A r \in ReqIds :
    reqs[r].created =>
      \/ /\ reqs[r].location_type = "gps"
         /\ reqs[r].latitude # Missing /\ reqs[r].longitude # Missing
         /\ reqs[r].address = Undefined
      \/ /\ reqs[r].location_type = "manual"
         /\ reqs[r].address # Undefined
         /\ reqs[r].latitude = Missing /\ reqs[r].longitude = Missing

\* A gps request at the corner of the ranges next to a manual request.
C20_Witness ==
  \E r1, r2 \in ReqIds :
    /\ reqs[r1].created /\ reqs[r1].latitude = -90 /\ reqs[r1].longitude = 180
    /\ reqs[r2].created /\ reqs[r2].address = "street"

\* C21: every request createRequest produces has status new, no verifier
\* and no team whatever the body carries, the supplied num_people or 1 when
\* none is supplied, and the caller as user_id or none when anonymous.
C21_CreatedRowFromInput ==
  [][\A p \in Procs, d \in IntakeInputs, u \in Creators, r \in ReqIds :
       (createRescueRequest(p, d, u) /\ ~reqs[r].created /\ reqs'[r].created)
         => /\ reqs'[r].status = "new"
            /\ reqs'[r].verified_by = NoUser
            /\ reqs'[r].assigned_team_id = NULL
            /\ reqs'[r].num_people =
                 IF d.num_people = Missing THEN 1 ELSE d.num_people
            /\ reqs'[r].user_id = u]_vars

\* A non-deleted team carries the name.
LiveTeamNamed(n) ==
  \E t \in TeamIds : teams[t].created /\ ~teams[t].deleted /\ teams[t].name = n

\* C22 (as stated): createTeam with the name of a non-deleted team fails
\* with a conflict error whatever the other fields are.
C22_DuplicateNameIsConflict ==
  \A d \in TeamInputs :
    (Truthy(d.name) /\ LiveTeamNamed(d.name)) => CreateTeamOutcome(d) = "Conflict"

\* C22 (amended): createTeam with the name of a non-deleted team fails with
\* a conflict error when the other required fields are present and with a
\* validation error when one is missing; no step stores a team under a
\* name that a non-deleted team carries.
C22_DuplicateNameRefused ==
  /\ [](\A d \in TeamInputs :
          (Truthy(d.name) /\ LiveTeamNamed(d.name)) =>
            CreateTeamOutcome(d) = IF d.required THEN "Conflict" ELSE "Validation")
  /\ [][\A t \in TeamIds :
          (~teams[t].created /\ teams'[t].created)
            => ~LiveTeamNamed(teams'[t].name)]_vars

\* A team is stored while a caller that found its name free is about to
\* insert a team of the same name.
C22_Witness ==
  \E t \in TeamIds, p \in Procs :
    /\ getTeamById(t)
    /\ calls[p].pc = "create_team" /\ calls[p].name = teams[t].name
    /\ CreateTeamOutcome([required |-> TRUE, name |-> teams[t].name,
                          province_city |-> "HCMC", specialization |-> Undefined]) = "Conflict"
    /\ CreateTeamOutcome([required |-> FALSE, name |-> teams[t].name,
                          province_city |-> "HCMC", specialization |-> Undefined]) = "Validation"

\* C23: at every moment no two non-deleted teams carry the same name,
\* whatever the interleaving of createTeam and updateTeam calls.
C23_LiveNamesUnique ==
  \A t1, t2 \in TeamIds :
    (getTeamById(t1) /\ getTeamById(t2) /\ t1 # t2) => teams[t1].name # teams[t2].name

\* Two teams are stored under different names while a createTeam that
\* found its name free is about to insert the name one of them carries.
C23_Witness ==
  \E t1, t2 \in TeamIds, p \in Procs :
    /\ t1 # t2 /\ getTeamById(t1) /\ getTeamById(t2)
    /\ calls[p].pc = "create_team" /\ calls[p].name = teams[t1].name

\* C24: the name check looks at non-deleted teams only, so a createTeam
\* whose name is carried by no non-deleted team (a soft-deleted one may
\* carry it) stores a new team when it reaches the insert.
C24_RecreateAfterDelete ==
  [][\A p \in Procs :
       (/\ CreateTeamInsert(p)
        /\ ~LiveTeamNamed(calls[p].name)
        /\ FreeTeamIds # {} /\ Rows < MaxRows)
         => \E t \in TeamIds :
              /\ ~teams[t].created
              /\ teams'[t] = StoredTeam(calls[p])]_vars

\* C25: deleteTeam on an on_mission team fails with a conflict error and
\* the team stays as it is, not deleted; deleteTeam on an available team
\* succeeds; once a team is soft-deleted, getTeam, updateTeam, deleteTeam,
\* setOnMission and setAvailable on its id fail with not-found, so its row
\* never changes again.
C25_DeleteTeamContract ==
  /\ [](\A t \in TeamIds :
          /\ (getTeamById(t) /\ teams[t].status = "on_mission")
                => DeleteTeamOutcome(t) = "Conflict"
          /\ (getTeamById(t) /\ teams[t].status = "available")
                => DeleteTeamOutcome(t) = "ok"
          /\ (teams[t].created /\ teams[t].deleted)
                => /\ ~getTeamById(t)
                   /\ \A patch \in TeamEdits : UpdateTeamOutcome(t, patch) = "NotFound"
                   /\ DeleteTeamOutcome(t) = "NotFound"
                   /\ SetTeamOnMissionOutcome(t) = "NotFound"
                   /\ SetTeamAvailableOutcome(t) = "NotFound")
  /\ [][\A t \in TeamIds :
          /\ (teams[t].status = "on_mission" /\ ~teams[t].deleted)
                => ~teams'[t].deleted
          /\ teams[t].deleted => teams'[t] = teams[t]]_vars

\* C26: in every reachable state no non-deleted request with status
\* on_mission names a soft-deleted team.
C26_NoDeletedTeamOnMission ==
  \A r \in ReqIds :
    (/\ getRescueRequestById(r)
     /\ reqs[r].status = "on_mission"
     /\ reqs[r].assigned_team_id \in TeamIds)
      => ~teams[reqs[r].assigned_team_id].deleted

\* C27: setOnMission on a team whose status is not available fails with a
\* conflict error, and a setOnMission writes on_mission only into a team
\* whose stored status is available, so that of two calls on the same
\* available team at most one succeeds.
C27_SetOnMissionFromAvailableOnly ==
  /\ [](\A t \in TeamIds :
          (getTeamById(t) /\ teams[t].status # "available")
            => SetTeamOnMissionOutcome(t) = "Conflict")
  /\ [][\A p \in Procs :
          SetTeamOnMissionUpdate(p)
            => teams[calls[p].t].status = "available"]_vars

C29_UpdateRequestFrame ==
  [][\A p \in Procs, id \in ReqIds, patch \in RequestEdits, u \in {NoUser, "coord"} :
       updateRescueRequest(p, id, patch, u)
         => /\ teams' = teams
            /\ \A r \in ReqIds \ {id} : reqs'[r] = reqs[r]
            /\ reqs'[id] = [reqs[id] EXCEPT !.status = reqs'[id].status,
                                            !.notes = reqs'[id].notes,
                                            !.verified_by = reqs'[id].verified_by]]_vars

\* A request has been patched (status, notes and verifier written by the
\* generic update) next to a stored team and still names no team.
C29_Witness ==
  \E r \in ReqIds :
    /\ getRescueRequestById(r)
    /\ reqs[r].status = "on_mission" /\ reqs[r].notes = <<"memo">>
    /\ reqs[r].verified_by = "coord"
    /\ reqs[r].assigned_team_id = NULL
    /\ getTeamById(1) /\ teams[1].status = "available"

\* The soft-deleted requests, and what list and statistics report when no
\* soft-deleted request is counted.
DeletedRequests == {r \in ReqIds : reqs[r].created /\ reqs[r].deleted}

DeletedNotCounted ==
  /\ \A f \in LifecycleStatuses \cup {Undefined} :
        /\ getAllRescueRequests(f).requests \cap DeletedRequests = {}
        /\ getAllRescueRequests(f).total =
             Cardinality({r \in ReqIds \ DeletedRequests :
                            reqs[r].created /\ (f # Undefined => reqs[r].status = f)})
  /\ getStatistics.total =
       Cardinality({r \in ReqIds : reqs[r].created}) - Cardinality(DeletedRequests)
  /\ \A s \in LifecycleStatuses :
        getStatistics.by_status[s] =
          Cardinality({r \in ReqIds \ DeletedRequests :
                         reqs[r].created /\ reqs[r].status = s})

\* C30 (as stated): on the id of a soft-deleted request getById, approve,
\* reject, assignTeam, completeMission, update and delete all fail with a
\* not-found error, and list and statistics do not count the request.
C30_DeletedRequestNotFound ==
  /\ \A r \in DeletedRequests, a \in Actors, reason \in ReasonInputs :
        /\ ~getRescueRequestById(r)
        /\ ApproveOutcome(r, a) = "NotFound"
        /\ RejectOutcome(r, a, reason) = "NotFound"
        /\ AssignRequestOutcome(r, a) = "NotFound"
        /\ CompleteRequestOutcome(r, a) = "NotFound"
        /\ RequestLookupOutcome(r) = "NotFound"
  /\ DeletedNotCounted

\* C30 (amended): as stated, except that reject with a missing or blank
\* reason fails with a validation error, the reason being checked before
\* the request is looked up.
C30_DeletedRequestExcluded ==
  /\ \A r \in DeletedRequests, a \in Actors, reason \in ReasonInputs :
        /\ ~getRescueRequestById(r)
        /\ ApproveOutcome(r, a) = "NotFound"
        /\ RejectOutcome(r, a, reason) =
             IF ReasonBlank(reason) THEN "Validation" ELSE "NotFound"
        /\ AssignRequestOutcome(r, a) = "NotFound"
        /\ CompleteRequestOutcome(r, a) = "NotFound"
        /\ RequestLookupOutcome(r) = "NotFound"
  /\ DeletedNotCounted

\* A request that went through triage is soft-deleted while another
\* request is stored and not deleted.
C30_Witness ==
  \E r1, r2 \in ReqIds :
    /\ r1 \in DeletedRequests /\ reqs[r1].status = "pending_verification"
    /\ getRescueRequestById(r2)
    /\ getStatistics.total = 1

\* The status code that goes with a kind of outcome.
CodeOfKind(kind) ==
  IF kind = "ok" THEN 200
  ELSE IF kind = "NotFound" THEN 404
  ELSE IF kind = "Forbidden" THEN 403
  ELSE 400

\* The outcome of assignTeam and of completeMission over both lookups.
AssignKind(id, t, a) ==
  IF AssignRequestOutcome(id, a) # "ok" THEN AssignRequestOutcome(id, a)
  ELSE AssignTeamOutcome(t)

CompleteKind(id, a) ==
  IF CompleteRequestOutcome(id, a) # "ok" THEN CompleteRequestOutcome(id, a)
  ELSE CompleteTeamOutcome(reqs[id].assigned_team_id)

\* C31: approve, reject, assignTeam, completeMission, createTeam and
\* deleteTeam answer 404 to a not-found failure (request, team or actor
\* absent), 403 to a role mismatch, 409 to a duplicate team name and 400 to
\* every other failure.
C31_StatusCodeByKind ==
  /\ \A id \in ReqIds, a \in Actors :
        /\ approveStatusCode(id, a) = CodeOfKind(ApproveOutcome(id, a))
        /\ \A reason \in ReasonInputs :
             rejectStatusCode(id, a, reason) = CodeOfKind(RejectOutcome(id, a, reason))
        /\ \A t \in TeamIds :
             assignTeamStatusCode(id, t, a) = CodeOfKind(AssignKind(id, t, a))
        /\ completeMissionStatusCode(id, a) = CodeOfKind(CompleteKind(id, a))
  /\ \A d \in TeamInputs :
        createTeamStatusCode(d) =
          IF CreateTeamOutcome(d) = "ok" THEN 201
          ELSE IF CreateTeamOutcome(d) = "Conflict" THEN 409
          ELSE 400
  /\ \A t \in TeamIds : deleteTeamStatusCode(t) = CodeOfKind(DeleteTeamOutcome(t))

\* The headers that carry no valid credential.
NoCredential == {"none", "empty", "invalid"}

\* C32: a request without a credential or with an invalid token is admitted
\* to createRequest and list with no identity attached, and every request
\* it creates has no owner; on approve, reject, assignTeam and
\* completeMission it is answered 401, and a citizen is answered 403.
C32_AnonymousPathsOnly ==
  /\ [](\A h \in NoCredential, id \in ReqIds, t \in TeamIds :
          /\ admit("create", h) = CallNext(NoUser)
          /\ admit("list", h) = CallNext(NoUser)
          /\ httpApproveCode(h, id) = 401
          /\ httpRejectCode(h, id, "dup") = 401
          /\ httpAssignCode(h, id, t) = 401
          /\ httpCompleteCode(h, id) = 401
          /\ httpApproveCode("citizen", id) = 403
          /\ httpRejectCode("citizen", id, "dup") = 403
          /\ httpAssignCode("citizen", id, t) = 403
          /\ httpCompleteCode("citizen", id) = 403)
  /\ [][\A p \in Procs, h \in NoCredential, d \in RequestInputs, r \in ReqIds :
          (httpCreate(p, h, d) /\ ~reqs[r].created /\ reqs'[r].created)
            => reqs'[r].user_id = NoUser]_vars

\* The filters a listing is asked with.
AreaFilters == {Undefined, "HCMC", "Hue"}
SpecializationFilters == {Undefined, "general", "medical"}

\* C33: listAvailableTeams returns exactly the non-deleted teams whose
\* status is available and that match every filter given, each once, in
\* ascending order of creation time; no team that is on_mission or
\* unavailable is in the result.
C33_AvailableTeamsListed ==
  \A a \in AreaFilters, sp \in SpecializationFilters :
    LET result == getAvailableTeams(a, sp)
    IN /\ \A t \in TeamIds :
            (\E i \in DOMAIN result : result[i] = t)
              <=> /\ teams[t].created /\ ~teams[t].deleted
                  /\ teams[t].status = "available"
                  /\ a # Undefined => teams[t].province_city = a
                  /\ sp # Undefined => teams[t].specialization = sp
       /\ \A i, j \in DOMAIN result :
            i < j => teams[result[i]].created_at < teams[result[j]].created_at
       /\ \A i \in DOMAIN result :
            teams[result[i]].status \notin {"on_mission", "unavailable"}

\* Two teams of one area are stored, the older one taken off duty: the
\* listing of the area returns the younger one alone.
C33_Witness ==
  \E t1, t2 \in TeamIds :
    /\ getTeamById(t1) /\ getTeamById(t2)
    /\ teams[t1].created_at < teams[t2].created_at
    /\ teams[t1].status = "unavailable" /\ teams[t2].status = "available"
    /\ teams[t1].province_city = teams[t2].province_city
    /\ teams[t2].specialization = "medical"
    /\ getAvailableTeams(teams[t2].province_city, "medical") = <<t2>>
    /\ getAvailableTeams(Undefined, Undefined) = <<t2>>

\* C35: every status a lifecycle operation writes into a request is a
\* member of the status enumeration declared for RescueRequest, and every
\* status it writes into a team is a member of the one declared for
\* RescueTeam.
C35_WrittenStatusInEnum ==
  [][/\ \A r \in ReqIds :
          (reqs'[r].created /\ reqs'[r] # reqs[r])
            => reqs'[r].status \in RequestStatusEnum
     /\ \A t \in TeamIds :
          (teams'[t].created /\ teams'[t] # teams[t])
            => teams'[t].status \in TeamStatusEnum]_vars

\* A piece of text is part of the notes.
Contains(notes, piece) == \E i \in DOMAIN notes : notes[i] = piece

\* The caller whose call is under way, if any, is the only one.
AtRest == \A p \in Procs : calls[p].pc = "idle"

\* Each call of the sequence, made when no other call is under way, is
\* accepted by the checks of its operation.
SequenceAccepted ==
  AtRest =>
    \A r \in ReqIds :
      getRescueRequestById(r) =>
        /\ reqs[r].status = "new" => ApproveOutcome(r, "coord") = "ok"
        /\ reqs[r].status = "pending_verification" =>
             \A t \in TeamIds :
               (getTeamById(t) /\ teams[t].status = "available")
                 => AssignKind(r, t, "coord") = "ok"
        /\ reqs[r].status = "on_mission" => CompleteKind(r, "coord") = "ok"

\* Each call of the sequence that passed its checks takes the request to
\* the next status and the team to its status.
SequenceSteps ==
  \A p \in Procs :
    LET r == calls[p].r
        t == calls[p].t
    IN /\ ApproveUpdate(p) =>
            /\ reqs[r].status = "new"
            /\ reqs'[r].status = "pending_verification"
            /\ reqs'[r].notes =
                 <<IF Truthy(calls[p].text) THEN calls[p].text ELSE ApprovedByDefault>>
       /\ (\E f \in TxFailures : AssignTransaction(p, f)) =>
            /\ reqs[r].status = "pending_verification"
            /\ reqs'[r].status = "on_mission" /\ reqs'[r].assigned_team_id = t
            /\ reqs'[r].notes = reqs[r].notes
            /\ teams[t].status = "available" /\ teams'[t].status = "on_mission"
       /\ (\E f \in TxFailures : CompleteTransaction(p, f)) =>
            /\ reqs[r].status = "on_mission"
            /\ reqs'[r].status = "completed"
            /\ teams[t].status = "on_mission" /\ teams'[t].status = "available"
            /\ \A i \in DOMAIN reqs[r].notes : Contains(reqs'[r].notes, reqs[r].notes[i])
            /\ Truthy(calls[p].text) => Contains(reqs'[r].notes, calls[p].text)

\* C34: createRequest (gps, valid), approve, assignTeam of an available
\* team and completeMission with notes c, all by a coordinator and one
\* after the other, run without error; the request passes through new,
\* pending_verification, on_mission and completed, the team is on_mission
\* after assignTeam and available after completeMission, and the final
\* notes contain the approval notes and c.
C34_LifecycleRunsThrough ==
  /\ []SequenceAccepted
  /\ [][SequenceSteps]_vars

\* C36: of an approve and a reject running concurrently on one new request
\* at most one succeeds: no approve writes into a request that a reject
\* has turned to rejected, and no reject writes into a request that an
\* approve has turned to pending_verification.
C36_ApproveRejectExclusive ==
  [][\A p \in Procs :
       /\ ApproveUpdate(p) => reqs[calls[p].r].status # "rejected"
       /\ RejectUpdate(p) => reqs[calls[p].r].status # "pending_verification"]_vars

\* C37: no request made with a citizen's token changes the status of a
\* rescue request or soft-deletes one, on any route that reaches update or
\* delete.
C37_CitizenCannotUpdateOrDelete ==
  [][\A p \in Procs, id \in ReqIds :
       /\ \A patch \in RequestPatches :
            httpUpdate(p, "citizen", id, patch)
              => reqs'[id].status = reqs[id].status
       /\ httpDelete(p, "citizen", id)
            => reqs'[id].deleted = reqs[id].deleted]_vars

\* C38: in every reachable state completeMission by a coordinator succeeds
\* on every non-deleted request whose status is on_mission: the team it
\* names exists and is not soft-deleted.
C38_OnMissionCompletable ==
  \A r \in ReqIds :
    (getRescueRequestById(r) /\ reqs[r].status = "on_mission")
      => CompleteKind(r, "coord") = "ok"

\* C39: completeMission makes a team available only from on_mission: a
\* team that an updateTeam set unavailable during the mission is still
\* unavailable after the completion.
C39_CompleteKeepsUnavailable ==
  [][\A p \in Procs :
       (CompleteCommits(p) /\ teams[calls[p].t].status = "unavailable")
         => teams'[calls[p].t].status = "unavailable"]_vars

====
